---- MODULE Spec2Model ----
(***************************************************************************)
(* Model of the ice_breaker orchestration pipeline:                        *)
(*   third_parties/linkedin.py  scrape_linkedin_profile, clean_profile_data*)
(*   third_parties/twitter.py   scrape_user_tweets, scrape_user_tweets_mock*)
(*   agents/*_lookup_agent.py   lookup (bounded ReAct loop)                *)
(*   output_parsers.py          Summary / summary_parser                   *)
(*   ice_breaker.py             ice_break_with                             *)
(***************************************************************************)
EXTENDS Integers, Sequences, FiniteSets, TLC

VARIABLES
    \* clean_profile_data applied on its own
    cl_pc, cl_data, cl_once, cl_twice,
    \* scrape_linkedin_profile
    li_pc, li_stack, li_key, li_json_exc, li_resp, li_exc, li_result,
    li_requests, li_live_exc, li_fixture_resp,
    \* scrape_user_tweets / scrape_user_tweets_mock
    tw_pc, tw_username, tw_num, tw_use_mock, tw_client, tw_exc, tw_result,
    tw_live, tw_fixture, tw_entered,
    \* lookup agents
    ag_pc, ag_iter, ag_searches, ag_output, ag_tool_failed, ag_text,
    \* ice_break_with
    pc, name, linkedin_username, linkedin_data, twitter_username, tweets,
    llm_raw, res, photo, steps, llm_calls, exc,
    \* process (app.py)
    http_pc, form_name, app_debug, response,
    \* requests served concurrently
    rq

cl_vars == <<cl_pc, cl_data, cl_once, cl_twice>>
li_vars == <<li_pc, li_stack, li_key, li_json_exc, li_resp, li_exc, li_result,
             li_requests, li_live_exc, li_fixture_resp>>
tw_vars == <<tw_pc, tw_username, tw_num, tw_use_mock, tw_client, tw_exc,
             tw_result, tw_live, tw_fixture, tw_entered>>
ag_vars == <<ag_pc, ag_iter, ag_searches, ag_output, ag_tool_failed, ag_text>>
pipe_vars == <<pc, name, linkedin_username, linkedin_data, twitter_username,
               tweets, llm_raw, res, photo, steps, llm_calls, exc>>
http_vars == <<http_pc, form_name, app_debug, response>>
rq_vars == <<rq>>
vars == <<cl_vars, li_vars, tw_vars, ag_vars, pipe_vars, http_vars, rq_vars>>

None == [kind |-> "none"]

(***************************************************************************)
(* JSON values as the Python objects json() produces.  A value is a tagged *)
(* record so that values of different Python types can be compared.        *)
(***************************************************************************)
JNull == [kind |-> "null", text |-> "", items |-> <<>>]
JStr(s) == [kind |-> "str", text |-> s, items |-> <<>>]
JList(xs) == [kind |-> "list", text |-> "", items |-> xs]
JMap == [kind |-> "map", text |-> "", items |-> <<>>]
JNum(s) == [kind |-> "num", text |-> s, items |-> <<>>]
JBool(s) == [kind |-> "bool", text |-> s, items |-> <<>>]

\* Python ==  between two JSON values of the kinds above
PyEq(a, b) == a.kind = b.kind /\ a.text = b.text /\ a.items = b.items

\* value in lst  (list membership by ==)
PyIn(value, lst) == \E i \in 1..Len(lst) : PyEq(value, lst[i])

\* linkedin.py:120
excluded_fields == <<"certifications">>

\* linkedin.py:123
empty_values == <<JList(<<>>), JStr(""), JNull>>

\* A buggy cleaning rule: a truthiness test instead of the empty_values list
clean_profile_data_truthy(data) ==
    LET falsy == {JList(<<>>), JStr(""), JNull, JMap, JNum("0"), JBool("false")}
        keep == {k \in DOMAIN data :
                    data[k] \notin falsy
                    /\ ~(\E i \in 1..Len(excluded_fields) : excluded_fields[i] = k)}
    IN  [k \in keep |-> data[k]]

\* A buggy cleaning rule: entries are deleted while iterating, so that only
\* the first offending entry met is removed by one pass
clean_profile_data_one(data) ==
    LET bad == {k \in DOMAIN data :
                    PyIn(data[k], empty_values)
                    \/ (\E i \in 1..Len(excluded_fields) : excluded_fields[i] = k)}
        first == CHOOSE k \in bad : TRUE
    IN  IF bad = {} THEN data
        ELSE [k \in (DOMAIN data) \ {first} |-> data[k]]

\* linkedin.py:109-131
clean_profile_data(data) ==
    LET keep == {k \in DOMAIN data :
                    ~PyIn(data[k], empty_values)
                    /\ ~(\E i \in 1..Len(excluded_fields) : excluded_fields[i] = k)}
    IN  [k \in keep |-> data[k]]

(***************************************************************************)
(* clean_profile_data called on its own, once and then on its own result   *)
(***************************************************************************)
ProfileKeys == {"fullName", "headline", "certifications", "summary"}

ProfileValues ==
    {JStr("Jane Doe"), JStr("Engineer"), JStr(""), JList(<<>>), JList(<<"X">>),
     JNull, JMap, JNum("0"), JBool("false")}

ProfileMappings == UNION {[S -> ProfileValues] : S \in SUBSET ProfileKeys}

CleanIdle ==
    /\ cl_pc = "idle"
    /\ cl_data = <<>>
    /\ cl_once = <<>>
    /\ cl_twice = <<>>

CleanInit ==
    /\ cl_pc = "start"
    /\ cl_data \in ProfileMappings
    /\ cl_once = <<>>
    /\ cl_twice = <<>>

CleanOnce ==
    /\ cl_pc = "start"
    /\ cl_once' = clean_profile_data(cl_data)
    /\ cl_pc' = "once"
    /\ UNCHANGED <<cl_data, cl_twice, li_vars, tw_vars, ag_vars, pipe_vars, http_vars, rq_vars>>

CleanTwice ==
    /\ cl_pc = "once"
    /\ cl_twice' = clean_profile_data(cl_once)
    /\ cl_pc' = "twice"
    /\ UNCHANGED <<cl_data, cl_once, li_vars, tw_vars, ag_vars, pipe_vars, http_vars, rq_vars>>

(***************************************************************************)
(* scrape_linkedin_profile (linkedin.py:25-106)                            *)
(***************************************************************************)
Urls == {"https://www.linkedin.com/in/a/", "not a url"}

Timeouts == {5, 10}

PersonKeys == {"photoUrl", "certifications", "PhotoUrl"}

PersonValues == {JStr("v"), JStr(""), JList(<<>>)}

PersonDicts == UNION {[S -> PersonValues] : S \in SUBSET PersonKeys}

\* what the "person" key of the response envelope may hold
PersonEntries ==
    {[kind |-> "dict", entries |-> m] : m \in PersonDicts} \cup {[kind |-> "null"]}

\* what response.json() may yield: a non-object document, or an object with or
\* without a "person" key
JsonDocs ==
    {[top |-> "array"]}
    \cup {[top |-> "object", fields |-> f] :
            f \in UNION {[S -> PersonEntries] : S \in SUBSET {"person"}}}

\* what requests.get may do: raise a connection error / timeout, or answer
\* with a status and a body that is JSON or not
Responses ==
    {[net |-> "error"]}
    \cup {[net |-> "ok", status |-> 500, json |-> FALSE]}
    \cup {[net |-> "ok", status |-> 200, json |-> FALSE]}
    \cup {[net |-> "ok", status |-> 200, json |-> TRUE, doc |-> d] : d \in JsonDocs}

\* Python exception classes that are subclasses of requests' RequestException.
\* response.json() raises requests.exceptions.JSONDecodeError, a
\* RequestException since requests 2.27 and a plain ValueError before; the
\* repository pins no version, so li_json_exc stands for the installed one.
IsRequestException(e) ==
    \/ e \in {"ConnectionError", "HTTPError"}
    \/ e = "JSONDecodeError" /\ li_json_exc = "RequestException"

Frame(url, mock, timeout, site) ==
    [url |-> url, mock |-> mock, timeout |-> timeout, site |-> site]

Top == li_stack[Len(li_stack)]

Push(f) == Append(li_stack, f)

Pop == SubSeq(li_stack, 1, Len(li_stack) - 1)

LiIdle ==
    /\ li_pc = "idle"
    /\ li_stack = <<>>
    /\ li_key = FALSE
    /\ li_json_exc = "RequestException"
    /\ li_resp = None
    /\ li_exc = "none"
    /\ li_result = None
    /\ li_requests = <<>>
    /\ li_live_exc = "none"
    /\ li_fixture_resp = None

\* a call scrape_linkedin_profile(url, mock, timeout) from outside
LiCall(url, mock, timeout) ==
    /\ li_pc' = "start"
    /\ li_stack' = <<Frame(url, mock, timeout, "caller")>>
    /\ li_resp' = None
    /\ li_exc' = "none"
    /\ li_result' = None
    /\ li_requests' = <<>>
    /\ li_live_exc' = "none"
    /\ li_fixture_resp' = None

LiInit ==
    /\ li_pc = "start"
    /\ \E u \in Urls, m \in BOOLEAN, t \in Timeouts :
          li_stack = <<Frame(u, m, t, "caller")>>
    /\ li_key \in BOOLEAN
    /\ li_json_exc \in {"RequestException", "ValueError"}
    /\ li_resp = None
    /\ li_exc = "none"
    /\ li_result = None
    /\ li_requests = <<>>
    /\ li_live_exc = "none"
    /\ li_fixture_resp = None

\* linkedin.py:57-65  requests.get(mock_data_url, timeout=timeout)
LiMockGet ==
    /\ li_pc = "start"
    /\ Top.mock
    /\ \E r \in Responses :
          /\ li_fixture_resp' = r
          /\ IF r.net = "error"
             THEN li_exc' = "ConnectionError" /\ li_pc' = "except"
                  /\ UNCHANGED li_resp
             ELSE li_resp' = r /\ li_pc' = "response" /\ UNCHANGED li_exc
    /\ li_requests' = Append(li_requests,
                             [endpoint |-> "fixture", timeout |-> Top.timeout])
    /\ UNCHANGED <<li_stack, li_key, li_json_exc, li_result, li_live_exc,
                   cl_vars, tw_vars, ag_vars, pipe_vars, http_vars, rq_vars>>

\* the credential test reversed
MissingKey_flipped == li_key

\* linkedin.py:70-72  api_key = os.environ.get(...); if not api_key
MissingKey == ~li_key

\* linkedin.py:72-74  return scrape_linkedin_profile(url, mock=True, timeout)
LiMissingKey ==
    /\ li_pc = "start"
    /\ ~Top.mock
    /\ MissingKey
    /\ li_stack' = Push(Frame(Top.url, TRUE, Top.timeout, "L74"))
    /\ UNCHANGED <<li_pc, li_key, li_json_exc, li_resp, li_exc, li_result,
                   li_requests, li_live_exc, li_fixture_resp,
                   cl_vars, tw_vars, ag_vars, pipe_vars, http_vars, rq_vars>>

\* linkedin.py:76-82  requests.get(api_endpoint, params=params, timeout=timeout)
LiLiveGet ==
    /\ li_pc = "start"
    /\ ~Top.mock
    /\ ~MissingKey
    /\ \E r \in Responses :
          IF r.net = "error"
          THEN li_exc' = "ConnectionError" /\ li_pc' = "except"
               /\ li_live_exc' = "ConnectionError" /\ UNCHANGED li_resp
          ELSE li_resp' = r /\ li_pc' = "response"
               /\ UNCHANGED <<li_exc, li_live_exc>>
    /\ li_requests' = Append(li_requests,
                             [endpoint |-> "live", url |-> Top.url,
                              timeout |-> Top.timeout])
    /\ UNCHANGED <<li_stack, li_key, li_json_exc, li_result, li_fixture_resp,
                   cl_vars, tw_vars, ag_vars, pipe_vars, http_vars, rq_vars>>

\* linkedin.py:84-95 as a function of the response: the exception raised, or
\* the cleaned person mapping returned
Processed(r) ==
    IF r.status # 200 THEN [exc |-> "HTTPError"]
    ELSE IF ~r.json THEN [exc |-> "JSONDecodeError"]
    ELSE IF r.doc.top # "object" THEN [exc |-> "AttributeError"]
    ELSE IF "person" \notin DOMAIN r.doc.fields
         THEN [exc |-> "none", value |-> clean_profile_data(<<>>)]
    ELSE IF r.doc.fields["person"].kind # "dict" THEN [exc |-> "AttributeError"]
    ELSE [exc |-> "none",
          value |-> clean_profile_data(r.doc.fields["person"].entries)]

\* linkedin.py:84-95  raise_for_status, json(), get("person", {}), clean, return
LiParse ==
    /\ li_pc = "response"
    /\ LET out == Processed(li_resp)
       IN  IF out.exc # "none"
           THEN /\ li_exc' = out.exc
                /\ li_pc' = "except"
                /\ li_live_exc' = IF Top.mock THEN li_live_exc ELSE out.exc
                /\ UNCHANGED li_result
           ELSE /\ li_result' = [kind |-> "dict", entries |-> out.value]
                /\ li_pc' = "return"
                /\ UNCHANGED <<li_exc, li_live_exc>>
    /\ UNCHANGED <<li_stack, li_key, li_json_exc, li_resp, li_requests,
                   li_fixture_resp, cl_vars, tw_vars, ag_vars, pipe_vars, http_vars, rq_vars>>

\* a handler that re-raises instead of falling back
FallsBack_never(mock) == FALSE

\* linkedin.py:99  if not mock
FallsBack(mock) == ~mock

\* linkedin.py:97-102  except requests.exceptions.RequestException
LiExceptRequest ==
    /\ li_pc = "except"
    /\ IsRequestException(li_exc)
    /\ IF FallsBack(Top.mock)
       THEN /\ li_stack' = Push(Frame(Top.url, TRUE, Top.timeout, "L101"))
            /\ li_pc' = "start"
            /\ li_exc' = "none"
       ELSE /\ li_pc' = "raise"
            /\ UNCHANGED <<li_stack, li_exc>>
    /\ UNCHANGED <<li_key, li_json_exc, li_resp, li_result, li_requests,
                   li_live_exc, li_fixture_resp,
                   cl_vars, tw_vars, ag_vars, pipe_vars, http_vars, rq_vars>>

\* linkedin.py:104-106  except Exception: log and re-raise
LiExceptOther ==
    /\ li_pc = "except"
    /\ ~IsRequestException(li_exc)
    /\ li_pc' = "raise"
    /\ UNCHANGED <<li_stack, li_key, li_json_exc, li_resp, li_exc, li_result,
                   li_requests, li_live_exc, li_fixture_resp,
                   cl_vars, tw_vars, ag_vars, pipe_vars, http_vars, rq_vars>>

\* linkedin.py:74,101  "return scrape_linkedin_profile(...)": the value of the
\* inner call is the value of the calling frame
LiReturn ==
    /\ li_pc = "return"
    /\ IF Len(li_stack) = 1
       THEN li_pc' = "returned" /\ UNCHANGED li_stack
       ELSE li_pc' = "return" /\ li_stack' = Pop
    /\ UNCHANGED <<li_key, li_json_exc, li_resp, li_exc, li_result,
                   li_requests, li_live_exc, li_fixture_resp,
                   cl_vars, tw_vars, ag_vars, pipe_vars, http_vars, rq_vars>>

\* an exception leaves a frame: the call at line 74 is inside the try block, so
\* the caller's except clauses see it; the call at line 101 is inside a handler,
\* so it leaves the caller too
LiPropagate ==
    /\ li_pc = "raise"
    /\ IF Len(li_stack) = 1
       THEN li_pc' = "raised" /\ UNCHANGED li_stack
       ELSE /\ li_pc' = IF Top.site = "L74" THEN "except" ELSE "raise"
            /\ li_stack' = Pop
    /\ UNCHANGED <<li_key, li_json_exc, li_resp, li_exc, li_result,
                   li_requests, li_live_exc, li_fixture_resp,
                   cl_vars, tw_vars, ag_vars, pipe_vars, http_vars, rq_vars>>

LiNext ==
    \/ LiMockGet
    \/ LiMissingKey
    \/ LiLiveGet
    \/ LiParse
    \/ LiExceptRequest
    \/ LiExceptOther
    \/ LiReturn
    \/ LiPropagate

(***************************************************************************)
(* scrape_user_tweets, scrape_user_tweets_mock (twitter.py:39-172)         *)
(***************************************************************************)
MaxPosts == 3

MaxCount == 3

MaxId == 2

Handles == {"EdenEmarco177", "someone"}

\* the text of the post with a given id
TextOf(i) == <<"text of", i>>

\* a post as the service or the fixture holds it
GoodPosts == {[id |-> i, text |-> TextOf(i)] : i \in 1..MaxId}

\* fixture records that lack the "text" key
BadPosts == [id : 1..MaxId]

SeqsUpTo(S, n) == UNION {[1..k -> S] : k \in 0..n}

\* what the live calls of lines 78-90 may do
LiveOutcomes ==
    {[kind |-> "get_user_raises", exc |-> e] : e \in {"TweepyException", "TypeError"}}
    \cup {[kind |-> "no_user"]}
    \cup {[kind |-> "get_users_tweets_raises", exc |-> e] :
             e \in {"TweepyException", "ConnectionError"}}
    \cup {[kind |-> "no_data"]}
    \cup {[kind |-> "tweets", data |-> d] : d \in SeqsUpTo(GoodPosts, MaxPosts)}

\* what the retrieval of the fixture document may do
FixtureOutcomes ==
    {[net |-> "error"]}
    \cup {[net |-> "ok", status |-> 500, json |-> FALSE]}
    \cup {[net |-> "ok", status |-> 200, json |-> FALSE]}
    \cup {[net |-> "ok", status |-> 200, json |-> TRUE, doc |-> [top |-> "object"]]}
    \cup {[net |-> "ok", status |-> 200, json |-> TRUE,
           doc |-> [top |-> "array", items |-> d]] :
             d \in SeqsUpTo(GoodPosts \cup BadPosts, MaxPosts)}

Min(a, b) == IF a <= b THEN a ELSE b

Max(a, b) == IF a >= b THEN a ELSE b

\* Python  seq[:n]
PySlice(seq, n) ==
    IF n >= 0 THEN SubSeq(seq, 1, Min(n, Len(seq)))
    ELSE SubSeq(seq, 1, Max(0, Len(seq) + n))

\* twitter.py:102,162  f"https://twitter.com/{username}/status/{id}"
TweetUrl(username, id) == <<"https://twitter.com/", username, "/status/", id>>

\* twitter.py:100-103,160-163
tweet_dict(username, tweet) ==
    [text |-> tweet.text, url |-> TweetUrl(username, tweet.id)]

\* no client-side truncation
Truncate_none(seq, n) == seq

\* twitter.py:99,159  [:num_tweets]
Truncate(seq, n) == PySlice(seq, n)

\* the index of the first record of seq that lacks a key, 0 when there is none
FirstBad(seq) ==
    IF \E i \in 1..Len(seq) : {"id", "text"} \ DOMAIN seq[i] # {}
    THEN CHOOSE i \in 1..Len(seq) :
            /\ {"id", "text"} \ DOMAIN seq[i] # {}
            /\ \A j \in 1..(i - 1) : {"id", "text"} \ DOMAIN seq[j] = {}
    ELSE 0

\* the mock path keeps the posts mapped before the failing record
scrape_user_tweets_mock_partial(username, num_tweets, f) ==
    IF f.net = "error" \/ f.status # 200 \/ ~f.json \/ f.doc.top # "array"
    THEN <<>>
    ELSE LET picked == Truncate(f.doc.items, num_tweets)
             good == IF FirstBad(picked) = 0 THEN picked
                     ELSE SubSeq(picked, 1, FirstBad(picked) - 1)
         IN  [i \in 1..Len(good) |-> tweet_dict(username, good[i])]

\* twitter.py:142-172  the value scrape_user_tweets_mock returns when the
\* fixture retrieval does f: any exception inside the try block gives []
scrape_user_tweets_mock(username, num_tweets, f) ==
    IF f.net = "error" THEN <<>>
    ELSE IF f.status # 200 THEN <<>>
    ELSE IF ~f.json THEN <<>>
    ELSE IF f.doc.top # "array" THEN <<>>
    ELSE LET picked == Truncate(f.doc.items, num_tweets)
         IN  IF FirstBad(picked) # 0 THEN <<>>
             ELSE [i \in 1..Len(picked) |-> tweet_dict(username, picked[i])]

TwIdle ==
    /\ tw_pc = "idle"
    /\ tw_username = ""
    /\ tw_num = 0
    /\ tw_use_mock = FALSE
    /\ tw_client = FALSE
    /\ tw_exc = "none"
    /\ tw_result = None
    /\ tw_live = None
    /\ tw_fixture = None
    /\ tw_entered = <<>>

\* a call scrape_user_tweets(username, num_tweets, use_mock) from outside
TwCall(username, num_tweets, use_mock) ==
    /\ tw_pc' = "start"
    /\ tw_username' = username
    /\ tw_num' = num_tweets
    /\ tw_use_mock' = use_mock
    /\ tw_exc' = "none"
    /\ tw_result' = None
    /\ tw_live' = None
    /\ tw_fixture' = None
    /\ tw_entered' = <<>>

TwInit ==
    /\ tw_pc = "start"
    /\ tw_username \in Handles
    /\ tw_num \in 0..MaxCount
    /\ tw_use_mock \in BOOLEAN
    /\ tw_client \in BOOLEAN
    /\ tw_exc = "none"
    /\ tw_result = None
    /\ tw_live = None
    /\ tw_fixture = None
    /\ tw_entered = <<>>

\* twitter.py:71-73  if use_mock or not twitter_client: return mock(...)
TwUseMock ==
    /\ tw_pc = "start"
    /\ tw_use_mock \/ ~tw_client
    /\ tw_pc' = "mock"
    /\ UNCHANGED <<tw_username, tw_num, tw_use_mock, tw_client, tw_exc,
                   tw_result, tw_live, tw_fixture, tw_entered,
                   cl_vars, li_vars, ag_vars, pipe_vars, http_vars, rq_vars>>

\* a live path that treats an empty answer like a failure and goes on to the
\* mock path
NoPosts_fallback == "mock"

\* twitter.py:93-95  if not tweets.data: return []
NoPosts == "returned"

\* twitter.py:75-107  the try block: get_user, get_users_tweets, format
TwLive ==
    /\ tw_pc = "start"
    /\ ~(tw_use_mock \/ ~tw_client)
    /\ \E o \in LiveOutcomes :
          /\ tw_live' = o
          /\ CASE o.kind \in {"get_user_raises", "get_users_tweets_raises"} ->
                    tw_exc' = o.exc /\ tw_pc' = "except" /\ UNCHANGED tw_result
               [] o.kind = "no_user" ->
                    tw_exc' = "ValueError" /\ tw_pc' = "except"
                    /\ UNCHANGED tw_result
               [] o.kind = "no_data" ->
                    tw_result' = <<>> /\ tw_pc' = NoPosts /\ UNCHANGED tw_exc
               [] o.kind = "tweets" ->
                    /\ tw_result' =
                          IF o.data = <<>> THEN <<>>
                          ELSE LET picked == Truncate(o.data, tw_num)
                               IN  [i \in 1..Len(picked) |->
                                       tweet_dict(tw_username, picked[i])]
                    /\ tw_pc' = IF o.data = <<>> THEN NoPosts ELSE "returned"
                    /\ UNCHANGED tw_exc
    /\ tw_entered' = Append(tw_entered, "live")
    /\ UNCHANGED <<tw_username, tw_num, tw_use_mock, tw_client, tw_fixture,
                   cl_vars, li_vars, ag_vars, pipe_vars, http_vars, rq_vars>>

\* twitter.py:109-112  except tweepy.TweepyException: fall back to mock data
TwExceptTweepy ==
    /\ tw_pc = "except"
    /\ tw_exc = "TweepyException"
    /\ tw_pc' = "mock"
    /\ UNCHANGED <<tw_username, tw_num, tw_use_mock, tw_client, tw_exc,
                   tw_result, tw_live, tw_fixture, tw_entered,
                   cl_vars, li_vars, ag_vars, pipe_vars, http_vars, rq_vars>>

\* a generic handler that lets the exception go
OtherHandled_raise == "raised"

\* twitter.py:114-117  where the generic handler goes: the mock path
OtherHandled == "mock"

\* twitter.py:114-117  except Exception: fall back to mock data
TwExceptOther ==
    /\ tw_pc = "except"
    /\ tw_exc # "TweepyException"
    /\ tw_pc' = OtherHandled
    /\ UNCHANGED <<tw_username, tw_num, tw_use_mock, tw_client, tw_exc,
                   tw_result, tw_live, tw_fixture, tw_entered,
                   cl_vars, li_vars, ag_vars, pipe_vars, http_vars, rq_vars>>

\* twitter.py:120-172  scrape_user_tweets_mock(username, num_tweets), whose
\* value the caller returns as it is
TwMock ==
    /\ tw_pc = "mock"
    /\ \E f \in FixtureOutcomes :
          /\ tw_fixture' = f
          /\ tw_result' = scrape_user_tweets_mock(tw_username, tw_num, f)
    /\ tw_pc' = "returned"
    /\ tw_entered' = Append(tw_entered, "fixture")
    /\ UNCHANGED <<tw_username, tw_num, tw_use_mock, tw_client, tw_exc,
                   tw_live, cl_vars, li_vars, ag_vars, pipe_vars, http_vars, rq_vars>>

TwNext ==
    \/ TwUseMock
    \/ TwLive
    \/ TwExceptTweepy
    \/ TwExceptOther
    \/ TwMock

(***************************************************************************)
(* lookup (agents/linkedin_lookup_agent.py, agents/twitter_lookup_agent.py)*)
(* and its search tool (tools/tools.py)                                    *)
(***************************************************************************)
\* linkedin_lookup_agent.py:89, twitter_lookup_agent.py:89
max_iterations == 5

\* the text AgentExecutor returns when the iteration cap stops it
StoppedOutput == "Agent stopped due to iteration limit or time limit."

\* texts of the reasoning model that are not a final answer: a request for
\* the search tool, and text the ReAct output parser cannot read
ToolRequest == "Action: Crawl Google"
Unparsable == "I could not find the profile"

\* final answers the reasoning model may give
FinalAnswers == {"eden-marco"}

AgIdle ==
    /\ ag_pc = "idle"
    /\ ag_iter = 0
    /\ ag_searches = 0
    /\ ag_output = ""
    /\ ag_tool_failed = FALSE
    /\ ag_text = ""

\* an executor that stops one step after the configured cap
CapReached_late == ag_iter >= max_iterations + 1

\* lookup:85-91  AgentExecutor(max_iterations=5): the loop goes on while the
\* number of steps taken is below the cap
CapReached == ag_iter >= max_iterations

\* lookup(name) has just been called
AgInit ==
    /\ ag_pc = "setup"
    /\ ag_iter = 0
    /\ ag_searches = 0
    /\ ag_output = ""
    /\ ag_tool_failed = FALSE
    /\ ag_text = ""

\* a call lookup(name) from outside
AgCall ==
    /\ ag_pc' = "setup"
    /\ ag_iter' = 0
    /\ ag_searches' = 0
    /\ ag_output' = ""
    /\ ag_tool_failed' = FALSE
    /\ ag_text' = ""

\* lookup:49-93  ChatOpenAI(...), hub.pull(...), create_react_agent, executor;
\* the model constructor and the hub download may raise
AgSetup ==
    /\ ag_pc = "setup"
    /\ ag_pc' \in {"think", "raised"}
    /\ UNCHANGED <<ag_iter, ag_searches, ag_output, ag_tool_failed, ag_text,
                   cl_vars, li_vars, tw_vars, pipe_vars, http_vars, rq_vars>>

\* lookup:96-98  one plan step of agent_executor.invoke: the reasoning model
\* gives a final answer, asks for the tool, gives text that does not parse
\* (handle_parsing_errors=True turns it into an observation), or fails
AgThink ==
    /\ ag_pc = "think"
    /\ ~CapReached
    /\ \/ \E o \in FinalAnswers :
             /\ ag_output' = o
             /\ ag_text' = o
             /\ ag_pc' = "returned"
             /\ UNCHANGED ag_iter
       \/ /\ ag_pc' = "act"
          /\ ag_text' = ToolRequest
          /\ UNCHANGED <<ag_iter, ag_output>>
       \/ /\ ag_iter' = ag_iter + 1
          /\ ag_text' = Unparsable
          /\ UNCHANGED <<ag_pc, ag_output>>
       \/ /\ ag_pc' = "raised"
          /\ UNCHANGED <<ag_iter, ag_output, ag_text>>
    /\ UNCHANGED <<ag_searches, ag_tool_failed,
                   cl_vars, li_vars, tw_vars, pipe_vars, http_vars, rq_vars>>

\* tools.py:37-55  get_profile_url_tavily: the search runs; an exception of
\* the search is caught and its text is returned as the tool's result, which
\* the executor hands to the loop as the observation
AgAct ==
    /\ ag_pc = "act"
    /\ \E failed \in BOOLEAN :
          ag_tool_failed' = (ag_tool_failed \/ failed)
    /\ ag_searches' = ag_searches + 1
    /\ ag_iter' = ag_iter + 1
    /\ ag_pc' = "think"
    /\ UNCHANGED <<ag_output, ag_text,
                   cl_vars, li_vars, tw_vars, pipe_vars, http_vars, rq_vars>>

\* lookup:96-102  the cap is reached: the executor stops and its output is
\* the fixed stop text, returned as an ordinary string
AgStop ==
    /\ ag_pc = "think"
    /\ CapReached
    /\ ag_output' = StoppedOutput
    /\ ag_pc' = "returned"
    /\ UNCHANGED <<ag_iter, ag_searches, ag_tool_failed, ag_text,
                   cl_vars, li_vars, tw_vars, pipe_vars, http_vars, rq_vars>>

AgNext ==
    \/ AgSetup
    \/ AgThink
    \/ AgAct
    \/ AgStop

(***************************************************************************)
(* Summary and summary_parser (output_parsers.py:17-56)                    *)
(***************************************************************************)
\* values the "summary" key of the model's output may hold
RawSummaries == {JNull, JStr(""), JStr("a summary"), JList(<<"x">>)}

\* values the "facts" key of the model's output may hold
RawFacts == {JNull, JStr("one fact"), JList(<<>>), JList(<<"f1", "f2">>)}

RawObjects ==
    {f \in UNION {[S -> RawSummaries \cup RawFacts] : S \in SUBSET {"summary", "facts"}} :
        /\ "summary" \in DOMAIN f => f["summary"] \in RawSummaries
        /\ "facts" \in DOMAIN f => f["facts"] \in RawFacts}

\* what the synthesis model may answer: text that is no JSON object, or an object
LlmOutputs ==
    {[json |-> FALSE]} \cup {[json |-> TRUE, fields |-> f] : f \in RawObjects}

\* a validation that lets a missing or null "facts" through
Validates_lax(f) ==
    /\ "summary" \in DOMAIN f
    /\ f["summary"].kind = "str"
    /\ "facts" \in DOMAIN f => f["facts"].kind \in {"list", "null"}

\* output_parsers.py:28-33  summary: str and facts: List[str], both required
Validates(f) ==
    /\ "summary" \in DOMAIN f
    /\ f["summary"].kind = "str"
    /\ "facts" \in DOMAIN f
    /\ f["facts"].kind = "list"

\* output_parsers.py:17-33,56  summary_parser.parse: the Summary built from the
\* raw output, or the parser's exception
Parse(raw) ==
    IF ~raw.json THEN [exc |-> "OutputParserException"]
    ELSE IF ~Validates(raw.fields) THEN [exc |-> "OutputParserException"]
    ELSE [exc |-> "none",
          value |-> [f \in DOMAIN raw.fields |->
                        IF f = "summary" THEN raw.fields[f].text
                        ELSE raw.fields[f].items]]

(***************************************************************************)
(* ice_break_with (ice_breaker.py:25-92)                                   *)
(***************************************************************************)
Names == {"Eden Marco", "Jane Doe"}

\* the external steps of one execution, in the order of the source
StepOrder ==
    <<"resolve_pro", "fetch_profile", "resolve_micro", "fetch_posts", "llm", "parse">>

\* the log of an execution in which every step ran: each step starts and ends
\* before the next one starts
FullLog ==
    [i \in 1..(2 * Len(StepOrder)) |->
        <<StepOrder[(i + 1) \div 2], IF i % 2 = 1 THEN "start" ELSE "end">>]

PipeIdle ==
    /\ pc = "idle"
    /\ name = ""
    /\ linkedin_username = None
    /\ linkedin_data = None
    /\ twitter_username = None
    /\ tweets = None
    /\ llm_raw = None
    /\ res = None
    /\ photo = None
    /\ steps = <<>>
    /\ llm_calls = 0
    /\ exc = "none"

PipeInit ==
    /\ pc = "start"
    /\ name \in Names
    /\ linkedin_username = None
    /\ linkedin_data = None
    /\ twitter_username = None
    /\ tweets = None
    /\ llm_raw = None
    /\ res = None
    /\ photo = None
    /\ steps = <<>>
    /\ llm_calls = 0
    /\ exc = "none"

\* the locals of a finished call are gone
LiDiscard ==
    /\ li_pc' = "idle"
    /\ li_stack' = <<>>
    /\ li_resp' = None
    /\ li_exc' = "none"
    /\ li_result' = None
    /\ li_requests' = <<>>
    /\ li_live_exc' = "none"
    /\ li_fixture_resp' = None
    /\ UNCHANGED <<li_key, li_json_exc>>

TwDiscard ==
    /\ tw_pc' = "idle"
    /\ tw_username' = ""
    /\ tw_num' = 0
    /\ tw_use_mock' = FALSE
    /\ tw_exc' = "none"
    /\ tw_result' = None
    /\ tw_live' = None
    /\ tw_fixture' = None
    /\ tw_entered' = <<>>
    /\ UNCHANGED tw_client

AgDiscard ==
    /\ ag_pc' = "idle"
    /\ ag_iter' = 0
    /\ ag_searches' = 0
    /\ ag_output' = ""
    /\ ag_tool_failed' = FALSE
    /\ ag_text' = ""

\* ice_breaker.py:50  linkedin_lookup_agent(name=name) is called
PipeLookupLinkedin ==
    /\ pc = "start"
    /\ AgCall
    /\ pc' = "resolve_pro"
    /\ steps' = Append(steps, <<"resolve_pro", "start">>)
    /\ UNCHANGED <<name, exc, linkedin_username, linkedin_data, twitter_username,
                   tweets, llm_raw, res, photo, llm_calls,
                   http_vars, rq_vars, cl_vars, li_vars, tw_vars>>

\* ice_breaker.py:50-51  the agent has returned;
\* scrape_linkedin_profile(linkedin_profile_url=linkedin_username) is called
\* with the defaults mock=False, timeout=10 (linkedin.py:27-28)
PipeScrapeLinkedin ==
    /\ pc = "resolve_pro"
    /\ ag_pc = "returned"
    /\ linkedin_username' = ag_output
    /\ AgDiscard
    /\ LiCall(ag_output, FALSE, 10)
    /\ pc' = "fetch_profile"
    /\ steps' = steps \o <<<<"resolve_pro", "end">>, <<"fetch_profile", "start">>>>
    /\ UNCHANGED <<name, exc, linkedin_data, twitter_username, tweets, llm_raw, res,
                   photo, llm_calls, li_key, li_json_exc, http_vars, rq_vars, cl_vars, tw_vars>>

\* ice_breaker.py:51,54  the profile has been returned;
\* twitter_lookup_agent(name=name) is called
PipeLookupTwitter ==
    /\ pc = "fetch_profile"
    /\ li_pc = "returned"
    /\ linkedin_data' = li_result
    /\ LiDiscard
    /\ AgCall
    /\ pc' = "resolve_micro"
    /\ steps' = steps \o <<<<"fetch_profile", "end">>, <<"resolve_micro", "start">>>>
    /\ UNCHANGED <<name, exc, linkedin_username, twitter_username, tweets, llm_raw,
                   res, photo, llm_calls, http_vars, rq_vars, cl_vars, tw_vars>>

\* ice_breaker.py:54-55  the agent has returned;
\* scrape_user_tweets(username=twitter_username) is called with the defaults
\* num_tweets=5, use_mock=False (twitter.py:41-42)
PipeScrapeTweets ==
    /\ pc = "resolve_micro"
    /\ ag_pc = "returned"
    /\ twitter_username' = ag_output
    /\ AgDiscard
    /\ TwCall(ag_output, 5, FALSE)
    /\ pc' = "fetch_posts"
    /\ steps' = steps \o <<<<"resolve_micro", "end">>, <<"fetch_posts", "start">>>>
    /\ UNCHANGED <<name, exc, linkedin_username, linkedin_data, tweets, llm_raw, res,
                   photo, llm_calls, tw_client, http_vars, rq_vars, cl_vars, li_vars>>

\* ice_breaker.py:55-84  the tweets have been returned; the prompt template,
\* the ChatOpenAI object and the chain are built (the constructor raises when
\* the model credential is missing)
PipeBuildChain ==
    /\ pc = "fetch_posts"
    /\ tw_pc = "returned"
    /\ tweets' = tw_result
    /\ TwDiscard
    /\ pc' \in {"invoke", "raised"}
    /\ exc' = IF pc' = "raised" THEN "OpenAIError" ELSE exc
    /\ steps' = Append(steps, <<"fetch_posts", "end">>)
    /\ UNCHANGED <<name, linkedin_username, linkedin_data, twitter_username,
                   llm_raw, res, photo, llm_calls, http_vars, rq_vars, cl_vars, li_vars, ag_vars>>

\* ice_breaker.py:84-90  chain.invoke: the prompt is formatted and the model
\* is called once; it answers with text or the call raises
PipeInvokeLLM ==
    /\ pc = "invoke"
    /\ llm_calls' = llm_calls + 1
    /\ \/ \E raw \in LlmOutputs :
             /\ llm_raw' = raw
             /\ pc' = "parse"
             /\ steps' = steps \o <<<<"llm", "start">>, <<"llm", "end">>>>
             /\ UNCHANGED exc
       \/ /\ pc' = "raised"
          /\ exc' = "APIError"
          /\ steps' = Append(steps, <<"llm", "start">>)
          /\ UNCHANGED llm_raw
    /\ UNCHANGED <<name, linkedin_username, linkedin_data, twitter_username,
                   tweets, res, photo, http_vars, rq_vars, cl_vars, li_vars, tw_vars, ag_vars>>

\* linkedin_data.get(key)
DictGet(d, key) == IF key \in DOMAIN d.entries THEN d.entries[key] ELSE JNull

\* a pipeline that asks the model again when its answer does not parse
PipeParse_reprompt ==
    /\ pc = "parse"
    /\ LET out == Parse(llm_raw)
       IN  IF out.exc = "none"
           THEN /\ res' = out.value
                /\ photo' = DictGet(linkedin_data, "PhotoUrl")
                /\ pc' = "returned"
                /\ steps' = steps \o <<<<"parse", "start">>, <<"parse", "end">>>>
           ELSE /\ pc' = "invoke"
                /\ steps' = Append(steps, <<"parse", "start">>)
                /\ UNCHANGED <<res, photo>>
    /\ UNCHANGED <<name, exc, linkedin_username, linkedin_data, twitter_username,
                   tweets, llm_raw, llm_calls, http_vars, rq_vars, cl_vars, li_vars, tw_vars, ag_vars>>

\* ice_breaker.py:84-92  chain.invoke: summary_parser parses the model's text;
\* return res, linkedin_data.get("PhotoUrl")
PipeParse ==
    /\ pc = "parse"
    /\ LET out == Parse(llm_raw)
       IN  IF out.exc = "none"
           THEN /\ res' = out.value
                /\ photo' = DictGet(linkedin_data, "PhotoUrl")
                /\ pc' = "returned"
                /\ steps' = steps \o <<<<"parse", "start">>, <<"parse", "end">>>>
                /\ UNCHANGED exc
           ELSE /\ pc' = "raised"
                /\ exc' = out.exc
                /\ steps' = Append(steps, <<"parse", "start">>)
                /\ UNCHANGED <<res, photo>>
    /\ UNCHANGED <<name, linkedin_username, linkedin_data, twitter_username,
                   tweets, llm_raw, llm_calls, http_vars, rq_vars, cl_vars, li_vars, tw_vars, ag_vars>>

\* the call ice_break_with is waiting for has raised
CalleeRaised ==
    \/ pc \in {"resolve_pro", "resolve_micro"} /\ ag_pc = "raised"
    \/ pc = "fetch_profile" /\ li_pc = "raised"
    \/ pc = "fetch_posts" /\ tw_pc = "raised"

\* the exception the raising callee leaves ice_break_with with
CalleeException ==
    CASE pc = "fetch_profile" -> li_exc
      [] pc = "fetch_posts" -> tw_exc
      [] OTHER -> "AgentError"

\* a pipeline that swallows a failure of the profile fetch and goes on with an
\* empty profile
PipeAbort_swallow ==
    /\ CalleeRaised
    /\ IF pc = "fetch_profile"
       THEN /\ linkedin_data' = [kind |-> "dict", entries |-> <<>>]
            /\ LiDiscard
            /\ AgCall
            /\ pc' = "resolve_micro"
            /\ steps' = steps \o <<<<"fetch_profile", "end">>, <<"resolve_micro", "start">>>>
            /\ UNCHANGED <<name, exc, linkedin_username, twitter_username, tweets,
                           llm_raw, res, photo, llm_calls, http_vars, rq_vars, cl_vars, tw_vars>>
       ELSE /\ pc' = "raised"
            /\ exc' = CalleeException
            /\ UNCHANGED <<name, linkedin_username, linkedin_data,
                           twitter_username, tweets, llm_raw, res, photo, steps,
                           llm_calls, http_vars, rq_vars, cl_vars, li_vars, tw_vars, ag_vars>>

\* ice_breaker.py:50-55  no try block: an exception of a callee leaves
\* ice_break_with, and nothing after it runs
PipeAbort ==
    /\ CalleeRaised
    /\ pc' = "raised"
    /\ exc' = CalleeException
    /\ UNCHANGED <<name, linkedin_username, linkedin_data, twitter_username,
                   tweets, llm_raw, res, photo, steps, llm_calls,
                   http_vars, rq_vars, cl_vars, li_vars, tw_vars, ag_vars>>

PipeNext ==
    \/ PipeLookupLinkedin
    \/ PipeScrapeLinkedin
    \/ PipeLookupTwitter
    \/ PipeScrapeTweets
    \/ PipeBuildChain
    \/ PipeInvokeLLM
    \/ PipeParse
    \/ PipeAbort

(***************************************************************************)
(* process (app.py:41-84), the handler of POST /process                    *)
(***************************************************************************)
\* names a client may send
FormNames == {"Eden Marco"}

\* request.form.get("name"): None when the field is missing
FormValues == {JNull, JStr("")} \cup {JStr(n) : n \in FormNames}

\* Python truthiness of a JSON value
PyTruthy(v) ==
    CASE v.kind = "null" -> FALSE
      [] v.kind = "str" -> v.text # ""
      [] v.kind = "list" -> v.items # <<>>
      [] OTHER -> TRUE

\* a test that only catches the missing field
NameMissing_none(n) == n = JNull

\* app.py:61  if not name
NameMissing(n) == ~PyTruthy(n)

\* app.py:82
GenericMessage == "Failed to generate ice breaker content. Please try again."

\* a handler that always discloses the error text
Details_always(e) == JStr(e)

\* app.py:83  str(e) if app.debug else None
Details(e) == IF app_debug THEN JStr(e) ELSE JNull

\* a conversion that keeps the first fact only
to_dict_first(s) ==
    [summary |-> s.summary,
     facts |-> IF s.facts = <<>> THEN <<>> ELSE <<s.facts[1]>>]

\* output_parsers.py:35-42  Summary.to_dict
to_dict(s) == [summary |-> s.summary, facts |-> s.facts]

\* app.py:72  profile_pic_url or ""
OrEmpty(v) == IF PyTruthy(v) THEN v ELSE JStr("")

\* a POST /process has arrived and process() starts
HttpInit ==
    /\ http_pc = "start"
    /\ form_name \in FormValues
    /\ app_debug \in BOOLEAN
    /\ response = None

\* app.py:60-62  the name is missing or empty: 400
HttpBadRequest ==
    /\ http_pc = "start"
    /\ NameMissing(form_name)
    /\ response' = [status |-> 400,
                    body |-> [error |-> "Name parameter is required"]]
    /\ http_pc' = "responded"
    /\ UNCHANGED <<form_name, app_debug,
                   cl_vars, li_vars, tw_vars, ag_vars, pipe_vars, rq_vars>>

\* app.py:64-67  ice_break_with(name=name) is called
HttpCallPipeline ==
    /\ http_pc = "start"
    /\ ~NameMissing(form_name)
    /\ pc = "idle"
    /\ pc' = "start"
    /\ name' = form_name.text
    /\ http_pc' = "calling"
    /\ UNCHANGED <<linkedin_username, linkedin_data, twitter_username, tweets,
                   llm_raw, res, photo, steps, llm_calls, exc,
                   form_name, app_debug, response,
                   cl_vars, li_vars, tw_vars, ag_vars, rq_vars>>

\* app.py:67-76  ice_break_with returned: 200 with the result and the photo
HttpOk ==
    /\ http_pc = "calling"
    /\ pc = "returned"
    /\ response' = [status |-> 200,
                    body |-> [summary_and_facts |-> to_dict(res),
                              photoUrl |-> OrEmpty(photo)]]
    /\ http_pc' = "responded"
    /\ UNCHANGED <<form_name, app_debug,
                   cl_vars, li_vars, tw_vars, ag_vars, pipe_vars, rq_vars>>

\* app.py:78-84  except Exception: 500 with the generic message
HttpError ==
    /\ http_pc = "calling"
    /\ pc = "raised"
    /\ response' = [status |-> 500,
                    body |-> [error |-> GenericMessage,
                              details |-> Details(exc)]]
    /\ http_pc' = "responded"
    /\ UNCHANGED <<form_name, app_debug,
                   cl_vars, li_vars, tw_vars, ag_vars, pipe_vars, rq_vars>>

HttpNext ==
    \/ HttpBadRequest
    \/ HttpCallPipeline
    \/ HttpOk
    \/ HttpError

(***************************************************************************)
(* Requests served concurrently.  Every request runs process() and         *)
(* ice_break_with in call frames of its own; the callees are taken by      *)
(* their outcome, a value or an exception.                                 *)
(***************************************************************************)
Requests == {1, 2}

\* the name field of a request
RqForms == {JStr(""), JStr("Eden Marco"), JStr("Jane Doe")}

\* a bound local variable
Val(x) == [kind |-> "val", v |-> x]

\* outcomes of the callees
RqIdentifiers == FinalAnswers \cup {StoppedOutput}
RqProfiles ==
    {[kind |-> "dict", entries |-> e] :
        e \in {<<>>, [k \in {"PhotoUrl"} |-> JStr("v")]}}
RqPosts == {<<>>, <<tweet_dict("eden-marco", [id |-> 1, text |-> TextOf(1)])>>}
RqPayloads ==
    {[json |-> FALSE],
     [json |-> TRUE,
      fields |-> [k \in {"summary", "facts"} |->
                     IF k = "summary" THEN JStr("a summary")
                     ELSE JList(<<"f1", "f2">>)]],
     [json |-> TRUE,
      fields |-> [k \in {"summary", "facts"} |->
                     IF k = "summary" THEN JStr("") ELSE JList(<<>>)]]}

\* the locals of ice_break_with before any assignment
NoLocals ==
    [name |-> None, linkedin_username |-> None, linkedin_data |-> None,
     twitter_username |-> None, tweets |-> None, res |-> None]

RqStart(f) ==
    [pc |-> "start", form |-> f, log |-> <<>>, exc |-> "none",
     response |-> None, locals |-> NoLocals]

RqInit == rq \in [Requests -> {RqStart(f) : f \in RqForms}]

\* locals kept in one module-level place for all requests
Slot_shared(r) == 1

\* ice_breaker.py:50-92  the locals of a call live in that call's own frame
Slot(r) == r

Ok(step, value) == [step |-> step, kind |-> "ok", value |-> value]
Raise(step, e) == [step |-> step, kind |-> "raise", exc |-> e]

\* a callee returned: the value is bound to a local and the call goes on
RqBind(r, var, value, next) ==
    rq' = [rq EXCEPT ![r].pc = next,
                     ![r].log = Append(@, Ok(rq[r].pc, value)),
                     ![Slot(r)].locals[var] = Val(value)]

\* a callee raised: the exception leaves ice_break_with
RqRaise(r, e) ==
    rq' = [rq EXCEPT ![r].pc = "raised",
                     ![r].log = Append(@, Raise(rq[r].pc, e)),
                     ![r].exc = e]

\* app.py:60-62
RqBadRequest(r) ==
    /\ rq[r].pc = "start"
    /\ NameMissing(rq[r].form)
    /\ rq' = [rq EXCEPT ![r].pc = "responded",
                        ![r].response =
                            [status |-> 400,
                             body |-> [error |-> "Name parameter is required"]]]

\* app.py:64-67  ice_break_with(name=name)
RqCall(r) ==
    /\ rq[r].pc = "start"
    /\ ~NameMissing(rq[r].form)
    /\ rq' = [rq EXCEPT ![r].pc = "resolve_pro",
                        ![Slot(r)].locals.name = Val(rq[r].form.text)]

\* ice_breaker.py:50  linkedin_username = linkedin_lookup_agent(name=name)
RqResolvePro(r) ==
    /\ rq[r].pc = "resolve_pro"
    /\ \/ \E u \in RqIdentifiers : RqBind(r, "linkedin_username", u, "fetch_profile")
       \/ RqRaise(r, "AgentError")

\* ice_breaker.py:51  linkedin_data = scrape_linkedin_profile(...)
RqFetchProfile(r) ==
    /\ rq[r].pc = "fetch_profile"
    /\ \/ \E d \in RqProfiles : RqBind(r, "linkedin_data", d, "resolve_micro")
       \/ RqRaise(r, "ConnectionError")

\* ice_breaker.py:54  twitter_username = twitter_lookup_agent(name=name)
RqResolveMicro(r) ==
    /\ rq[r].pc = "resolve_micro"
    /\ \/ \E u \in RqIdentifiers : RqBind(r, "twitter_username", u, "fetch_posts")
       \/ RqRaise(r, "AgentError")

\* ice_breaker.py:55  tweets = scrape_user_tweets(username=twitter_username)
RqFetchPosts(r) ==
    /\ rq[r].pc = "fetch_posts"
    /\ \E t \in RqPosts : RqBind(r, "tweets", t, "invoke")

\* ice_breaker.py:84-90  res = chain.invoke(...): the model answers and
\* summary_parser parses the answer, or the model call raises
RqSynthesize(r) ==
    /\ rq[r].pc = "invoke"
    /\ \/ \E raw \in RqPayloads :
             LET out == Parse(raw)
             IN  IF out.exc = "none"
                 THEN rq' = [rq EXCEPT ![r].pc = "returned",
                                       ![r].log = Append(@, Ok("invoke", raw)),
                                       ![Slot(r)].locals.res = Val(out.value)]
                 ELSE rq' = [rq EXCEPT ![r].pc = "raised",
                                       ![r].log = Append(@, Ok("invoke", raw)),
                                       ![r].exc = out.exc]
       \/ RqRaise(r, "APIError")

\* ice_breaker.py:92, app.py:67-76
RqOk(r) ==
    /\ rq[r].pc = "returned"
    /\ LET my == rq[Slot(r)].locals
       IN  rq' = [rq EXCEPT ![r].pc = "responded",
                            ![r].response =
                                [status |-> 200,
                                 body |-> [summary_and_facts |-> to_dict(my.res.v),
                                           photoUrl |->
                                              OrEmpty(DictGet(my.linkedin_data.v,
                                                              "PhotoUrl"))]]]

\* app.py:78-84
RqError(r) ==
    /\ rq[r].pc = "raised"
    /\ rq' = [rq EXCEPT ![r].pc = "responded",
                        ![r].response =
                            [status |-> 500,
                             body |-> [error |-> GenericMessage,
                                       details |-> Details(rq[r].exc)]]]

RqNext ==
    /\ \E r \in Requests :
          \/ RqBadRequest(r)
          \/ RqCall(r)
          \/ RqResolvePro(r)
          \/ RqFetchProfile(r)
          \/ RqResolveMicro(r)
          \/ RqFetchPosts(r)
          \/ RqSynthesize(r)
          \/ RqOk(r)
          \/ RqError(r)
    /\ UNCHANGED <<cl_vars, li_vars, tw_vars, ag_vars, pipe_vars, http_vars>>

(***************************************************************************)
(* Specifications                                                          *)
(***************************************************************************)
\* the fetchers before any call; the credentials, the installed requests
\* build and the microblog client are fixed when the process starts
FetchersIdle ==
    /\ li_pc = "idle"
    /\ li_stack = <<>>
    /\ li_key \in BOOLEAN
    /\ li_json_exc \in {"RequestException", "ValueError"}
    /\ li_resp = None
    /\ li_exc = "none"
    /\ li_result = None
    /\ li_requests = <<>>
    /\ li_live_exc = "none"
    /\ li_fixture_resp = None
    /\ tw_pc = "idle"
    /\ tw_username = ""
    /\ tw_num = 0
    /\ tw_use_mock = FALSE
    /\ tw_client \in BOOLEAN
    /\ tw_exc = "none"
    /\ tw_result = None
    /\ tw_live = None
    /\ tw_fixture = None
    /\ tw_entered = <<>>

\* app.py: no request is being handled
HttpIdle ==
    /\ http_pc = "idle"
    /\ form_name = JNull
    /\ app_debug = FALSE
    /\ response = None

\* no concurrent requests are modelled
RqIdle == rq = <<>>

\* one execution of ice_break_with, under any process configuration
Init ==
    /\ CleanIdle /\ AgIdle /\ PipeInit /\ FetchersIdle
    /\ HttpIdle /\ RqIdle

Next == PipeNext \/ AgNext \/ LiNext \/ TwNext

Spec == Init /\ [][Next]_vars

\* clean_profile_data and scrape_linkedin_profile called directly
InitProfile ==
    /\ TwIdle /\ AgIdle /\ PipeIdle /\ HttpIdle /\ RqIdle
    /\ \/ CleanInit /\ LiIdle
       \/ CleanIdle /\ LiInit

NextProfile == CleanOnce \/ CleanTwice \/ LiNext

SpecProfile == InitProfile /\ [][NextProfile]_vars

\* one POST /process served by process(), under any process configuration
InitHttp ==
    /\ CleanIdle /\ AgIdle /\ PipeIdle /\ FetchersIdle
    /\ HttpInit /\ RqIdle

NextHttp == HttpNext \/ Next

SpecHttp == InitHttp /\ [][NextHttp]_vars

\* two POST /process requests served at the same time by one process
InitConcurrent ==
    /\ CleanIdle /\ LiIdle /\ TwIdle /\ AgIdle /\ PipeIdle
    /\ http_pc = "idle"
    /\ form_name = JNull
    /\ app_debug \in BOOLEAN
    /\ response = None
    /\ RqInit

NextConcurrent == RqNext

SpecConcurrent == InitConcurrent /\ [][NextConcurrent]_vars

\* lookup called directly; every call of the reasoning model and of the
\* search tool answers or fails, so the loop always takes its next step
InitLookup ==
    /\ CleanIdle /\ LiIdle /\ TwIdle /\ PipeIdle /\ HttpIdle /\ RqIdle
    /\ AgInit

NextLookup == AgNext

SpecLookup == InitLookup /\ [][NextLookup]_vars /\ WF_vars(NextLookup)

\* scrape_user_tweets called directly
InitPosts ==
    /\ CleanIdle /\ LiIdle /\ AgIdle /\ PipeIdle /\ HttpIdle /\ RqIdle
    /\ TwInit

NextPosts == TwNext

SpecPosts == InitPosts /\ [][NextPosts]_vars

(***************************************************************************)
(* Properties                                                              *)
(***************************************************************************)
Finished(p) == p \in {"returned", "raised"}

IsPrefix(s, t) == Len(s) <= Len(t) /\ \A i \in 1..Len(s) : s[i] = t[i]

\* C1 as stated: whenever ice_break_with returns, the result has a non-empty
\* summary string and a facts sequence.
C1_NonEmptySummary ==
    pc = "returned" =>
        /\ DOMAIN res = {"summary", "facts"}
        /\ res.summary \in {"a summary"}
        /\ res.facts \in {<<>>, <<"f1", "f2">>}

\* C1 (amended): ice_break_with either returns a result that has both fields,
\* summary a string (possibly empty) and facts a sequence of strings (possibly
\* empty), or raises and leaves no result at all.
C1_BothFieldsPopulated ==
    /\ pc = "returned" =>
          /\ DOMAIN res = {"summary", "facts"}
          /\ res.summary \in {"", "a summary"}
          /\ res.facts \in {<<>>, <<"f1", "f2">>}
    /\ pc # "returned" => res = None

C1_Witness ==
    /\ pc = "returned"
    /\ res.summary = ""
    /\ res.facts = <<>>

\* the state invariant of C2: the log of steps is a prefix of the full log,
\* complete on return and incomplete on failure, and a callee is active only
\* inside its own step
C2_Order ==
    /\ IsPrefix(steps, FullLog)
    /\ pc = "returned" => steps = FullLog
    /\ pc = "raised" => Len(steps) < Len(FullLog) /\ res = None /\ photo = None
    /\ ag_pc \notin {"idle", "raised"} =>
          /\ pc \in {"resolve_pro", "resolve_micro"}
          /\ steps[Len(steps)] = <<pc, "start">>
    /\ li_pc \notin {"idle", "raised"} =>
          /\ pc = "fetch_profile"
          /\ steps[Len(steps)] = <<pc, "start">>
    /\ tw_pc \notin {"idle", "raised"} =>
          /\ pc = "fetch_posts"
          /\ steps[Len(steps)] = <<pc, "start">>

\* C2: the external steps of one execution happen in the order resolve_pro,
\* fetch_profile, resolve_micro, fetch_posts, llm, parse, each starting after
\* the previous one ended; once a callee has raised, the request fails with no
\* further step, and a failed request does nothing more.
C2_StrictlySequential ==
    /\ []C2_Order
    /\ [][/\ CalleeRaised => pc' = "raised" /\ steps' = steps
          /\ pc # "raised"]_vars

C2_Witness ==
    /\ pc = "returned"
    /\ steps = FullLog
    /\ llm_calls = 1

\* the frame of the call made from outside
Outer == li_stack[1]

LiveRequests == {i \in 1..Len(li_requests) : li_requests[i].endpoint = "live"}

FixtureRequests == {i \in 1..Len(li_requests) : li_requests[i].endpoint = "fixture"}

\* C3: with mock=True or without the credential, scrape_linkedin_profile
\* never requests the live endpoint and, once finished, has retrieved the
\* fixture document; the live endpoint is requested only with mock=False and
\* the credential present.
C3_MockNeverCallsLive ==
    li_pc # "idle" =>
        /\ (Outer.mock \/ ~li_key) =>
              /\ LiveRequests = {}
              /\ Finished(li_pc) => FixtureRequests # {}
        /\ LiveRequests # {} => ~Outer.mock /\ li_key

C3_Witness ==
    /\ li_pc = "returned"
    /\ ~Outer.mock
    /\ ~li_key
    /\ Len(li_requests) = 1
    /\ li_requests[1].endpoint = "fixture"

\* the live call of a call with mock=False and the credential failed at the
\* transport level: no connection / timeout, or an error status
LiveTransportFailed ==
    /\ li_pc # "idle"
    /\ ~Outer.mock
    /\ li_key
    /\ li_live_exc \in {"ConnectionError", "HTTPError"}

\* linkedin.py:57-65,84-106 with mock=True: what the mock path does when the
\* fixture retrieval answers r
MockPath(r) ==
    IF r.net = "error" THEN [exc |-> "ConnectionError"] ELSE Processed(r)

\* C4 as stated: after a transport failure of the live call the function does
\* not raise, it returns.
C4_NeverRaises ==
    LiveTransportFailed /\ Finished(li_pc) => li_pc = "returned"

\* C4 (amended): after a transport failure of the live call the failure itself
\* is not raised; the fixture is requested once with the same timeout and the
\* outcome of the call is the outcome of the mock path: its value, or its error
\* when the fixture retrieval fails too.
C4_FallbackOutcome ==
    LiveTransportFailed /\ Finished(li_pc) =>
        /\ li_requests =
              <<[endpoint |-> "live", url |-> Outer.url, timeout |-> Outer.timeout],
                [endpoint |-> "fixture", timeout |-> Outer.timeout]>>
        /\ LET m == MockPath(li_fixture_resp)
           IN  IF m.exc = "none"
               THEN li_pc = "returned" /\ li_result.entries = m.value
               ELSE li_pc = "raised" /\ li_exc = m.exc

C4_Witness ==
    /\ LiveTransportFailed
    /\ li_live_exc = "ConnectionError"
    /\ li_pc = "returned"
    /\ "PhotoUrl" \in DOMAIN li_result.entries

\* C5: an error after a successful response of the live call (body that is
\* not JSON, document of an unexpected shape) never leads to the fixture and
\* is what the call raises.
C5_NonTransportPropagates ==
    (/\ li_pc # "idle"
     /\ ~Outer.mock
     /\ li_key
     /\ li_live_exc \in {"JSONDecodeError", "AttributeError"}) =>
        /\ FixtureRequests = {}
        /\ Finished(li_pc) => li_pc = "raised" /\ li_exc = li_live_exc

\* empty-equivalent values: the empty sequence, the empty string, null
EmptyEquivalent(v) ==
    \/ v.kind = "null"
    \/ v.kind = "str" /\ v.text = ""
    \/ v.kind = "list" /\ v.items = <<>>

\* the entries of d that the cleaning rule is to keep
Kept(d) ==
    [k \in {j \in DOMAIN d : j # "certifications" /\ ~EmptyEquivalent(d[j])} |-> d[k]]

JaneDoe ==
    [k \in ProfileKeys |->
        CASE k = "fullName" -> JStr("Jane Doe")
          [] k = "headline" -> JStr("Engineer")
          [] k = "certifications" -> JList(<<"X">>)
          [] k = "summary" -> JStr("")]

JaneDoeCleaned ==
    [k \in {"fullName", "headline"} |->
        IF k = "fullName" THEN JStr("Jane Doe") ELSE JStr("Engineer")]

\* the person mapping of the response a returned record was made from
PersonOf(r) ==
    IF "person" \in DOMAIN r.doc.fields THEN r.doc.fields["person"].entries ELSE <<>>

\* C6: clean_profile_data returns exactly the entries whose key is not
\* denylisted and whose value is not empty-equivalent, values unchanged; the
\* Jane Doe record gives {fullName, headline}; every record
\* scrape_linkedin_profile returns is the cleaned person mapping.
C6_CleaningRule ==
    /\ cl_pc \in {"once", "twice"} =>
          /\ cl_once = Kept(cl_data)
          /\ cl_data = JaneDoe => cl_once = JaneDoeCleaned
    /\ li_pc = "returned" => li_result.entries = Kept(PersonOf(li_resp))

C6_Witness ==
    /\ cl_pc = "once"
    /\ cl_data = JaneDoe
    /\ cl_once = JaneDoeCleaned

\* C7: cleaning a cleaned mapping changes nothing.
C7_CleanIdempotent ==
    cl_pc = "twice" => cl_twice = cl_once

C7_Witness ==
    /\ cl_pc = "twice"
    /\ Cardinality(DOMAIN cl_data) - Cardinality(DOMAIN cl_once) >= 2
    /\ cl_once # <<>>

\* the fixture retrieval of the call answered with an array document
FixtureIsArray ==
    /\ tw_fixture # None
    /\ tw_fixture.net = "ok"
    /\ tw_fixture.status = 200
    /\ tw_fixture.json
    /\ tw_fixture.doc.top = "array"

\* the posts the returned value was made from: the live answer, or the array
\* of the fixture document when the fixture path was taken
SourcePosts ==
    IF tw_fixture # None THEN tw_fixture.doc.items
    ELSE IF tw_live.kind = "tweets" THEN tw_live.data ELSE <<>>

\* the call read a source whose first min(count, n) records are posts
SourceHoldsPosts ==
    /\ tw_pc = "returned"
    /\ tw_fixture # None => FixtureIsArray
    /\ \A i \in 1..Min(tw_num, Len(SourcePosts)) :
          {"id", "text"} \subseteq DOMAIN SourcePosts[i]

\* C8: scrape_user_tweets returns at most num_tweets entries; against a
\* source of n posts it returns the first min(num_tweets, n) in source order,
\* each as {text, url}, the url built from the requested username and the
\* post's id.
C8_FirstCountInOrder ==
    /\ tw_pc = "returned" => Len(tw_result) <= tw_num
    /\ SourceHoldsPosts =>
          /\ Len(tw_result) = Min(tw_num, Len(SourcePosts))
          /\ \A i \in 1..Len(tw_result) :
                tw_result[i] =
                    [text |-> SourcePosts[i].text,
                     url |-> TweetUrl(tw_username, SourcePosts[i].id)]

C8_Witness ==
    /\ SourceHoldsPosts
    /\ tw_fixture # None
    /\ Len(SourcePosts) = 3
    /\ tw_num = 2
    /\ Len(tw_result) = 2
    /\ tw_result[1] # tw_result[2]

\* the live path of the call raised
LiveRaised ==
    /\ tw_live # None
    /\ tw_live.kind \in {"get_user_raises", "no_user", "get_users_tweets_raises"}

FixtureFailed ==
    /\ tw_fixture # None
    /\ \/ ~FixtureIsArray
       \/ \E i \in 1..Min(tw_num, Len(tw_fixture.doc.items)) :
             {"id", "text"} \ DOMAIN tw_fixture.doc.items[i] # {}

ParseFailed ==
    /\ llm_raw # None
    /\ pc # "parse"
    /\ Parse(llm_raw).exc # "none"

\* C13: when the model's raw output does not match the Summary schema,
\* ice_break_with raises the parser's exception and returns nothing, and the
\* model is not asked again: it has been invoked exactly once in every
\* execution that reached the parse, whether the parse succeeded or failed,
\* and never more than once
C13_NoReprompt ==
    /\ llm_calls <= 1
    /\ llm_raw # None => llm_calls = 1
    /\ pc = "returned" => llm_calls = 1 /\ Parse(llm_raw).exc = "none"
    /\ ParseFailed =>
          /\ pc = "raised"
          /\ exc = "OutputParserException"
          /\ res = None /\ photo = None

\* the model answered an object without the facts key, and the request failed
C13_Witness ==
    /\ ParseFailed
    /\ llm_raw.json
    /\ "facts" \notin DOMAIN llm_raw.fields
    /\ "summary" \in DOMAIN llm_raw.fields
    /\ pc = "raised"
    /\ llm_calls = 1

(***************************************************************************)
(* C20                                                                     *)
(***************************************************************************)
\* the live path found the user and the service held no posts for it
LiveEmpty ==
    /\ tw_live # None
    /\ \/ tw_live.kind = "no_data"
       \/ tw_live.kind = "tweets" /\ tw_live.data = <<>>

\* the mock path has been entered or is about to be
FixtureEntered ==
    \/ tw_pc = "mock"
    \/ \E i \in 1..Len(tw_entered) : tw_entered[i] = "fixture"

\* C20: when the live path finds the user and the service returns no posts,
\* scrape_user_tweets returns the empty list directly and the mock path is
\* not entered; the mock path is entered only when use_mock is true, the
\* client is unavailable, or the live path raised
C20_EmptyIsNotFailure ==
    /\ LiveEmpty =>
          /\ tw_pc = "returned"
          /\ tw_result = <<>>
          /\ tw_fixture = None
          /\ tw_entered = <<"live">>
    /\ FixtureEntered => (tw_use_mock \/ ~tw_client \/ LiveRaised)

\* a live call for a known user without posts has returned
C20_Witness ==
    /\ tw_pc = "returned"
    /\ ~tw_use_mock /\ tw_client
    /\ tw_live # None /\ tw_live.kind = "no_data"
    /\ tw_result = <<>>
    /\ tw_num > 0

(***************************************************************************)
(* C18                                                                     *)
(***************************************************************************)
\* how often scrape_user_tweets entered the path p
Entered(p) == Cardinality({i \in 1..Len(tw_entered) : tw_entered[i] = p})

\* C18: no service is attempted more than once: scrape_linkedin_profile
\* requests the live endpoint at most once and the fixture document at most
\* once, the fallback recursion is at most one call deep under the outer
\* call, and scrape_user_tweets enters the live path at most once and the
\* mock path at most once
C18_AtMostOnce ==
    /\ Cardinality(LiveRequests) <= 1
    /\ Cardinality(FixtureRequests) <= 1
    /\ Len(li_stack) <= 2
    /\ Entered("live") <= 1
    /\ Entered("fixture") <= 1

(***************************************************************************)
(* C16                                                                     *)
(***************************************************************************)
\* what holds at every point of a lookup: at most 5 steps of the loop, at
\* most one search per step, and a returned value that is a final answer of
\* the reasoning model or, at the cap, the executor's fixed stop text
C16_Bounded ==
    /\ ag_iter <= 5
    /\ ag_searches <= ag_iter
    /\ ag_pc = "returned" =>
          \/ ag_output \in FinalAnswers /\ ag_output = ag_text
          \/ ag_iter = 5 /\ ag_output = StoppedOutput

C17_SearchErrorPropagates ==
    ag_tool_failed => ag_pc = "raised"

(***************************************************************************)
(* C11                                                                     *)
(***************************************************************************)
\* ice_break_with and everything behind it have not run
PipelineUntouched ==
    /\ pc = "idle" /\ steps = <<>> /\ llm_calls = 0
    /\ ag_pc = "idle" /\ ag_searches = 0
    /\ li_pc = "idle" /\ li_requests = <<>>
    /\ tw_pc = "idle" /\ tw_entered = <<>>

\* C11: POST /process with the name field missing or equal to the empty
\* string is answered with status 400 and a body holding an error key, and
\* ice_break_with and every external call behind it are never invoked
C11_BadRequest ==
    (form_name = JNull \/ form_name = JStr("")) =>
        /\ PipelineUntouched
        /\ http_pc \in {"start", "responded"}
        /\ http_pc = "responded" =>
              /\ response.status = 400
              /\ "error" \in DOMAIN response.body

\* a request with name="" has been answered
C11_Witness ==
    /\ http_pc = "responded"
    /\ form_name = JStr("")
    /\ response.status = 400
    /\ PipelineUntouched

(***************************************************************************)
(* C12                                                                     *)
(***************************************************************************)
\* C12: every failure that leaves ice_break_with is answered with one 500
\* response carrying the fixed generic message; the error text is in details
\* only in debug mode and null otherwise; nothing of a partial result is in
\* the body, and after the response the handler takes no further step
C12_GenericFailure ==
    /\ (http_pc = "responded" /\ pc = "raised") =>
          /\ response.status = 500
          /\ DOMAIN response.body = {"error", "details"}
          /\ response.body.error = GenericMessage
          /\ response.body.details = (IF app_debug THEN JStr(exc) ELSE JNull)
          /\ exc # "none"
    /\ (http_pc = "responded" /\ response.status = 500) => pc = "raised"
    /\ http_pc = "responded" => ~ENABLED HttpNext

\* a schema violation answered in production mode, with the profile fetched
C12_Witness ==
    /\ http_pc = "responded"
    /\ response.status = 500
    /\ exc = "OutputParserException"
    /\ ~app_debug
    /\ response.body.details = JNull
    /\ linkedin_data # None
    /\ llm_calls = 1

(***************************************************************************)
(* C14                                                                     *)
(***************************************************************************)
\* the synthesis model answered with an object that fits the Summary schema
ValidPayload ==
    /\ llm_raw # None
    /\ Parse(llm_raw).exc = "none"

\* C14: when the synthesis model returns a valid payload (in particular with
\* both fetchers on their mock paths), POST /process with a non-empty name
\* answers 200 and summary_and_facts holds the payload's summary and facts
\* list verbatim: same elements, same order
C14_PayloadVerbatim ==
    (http_pc = "responded" /\ ValidPayload) =>
        /\ response.status = 200
        /\ DOMAIN response.body.summary_and_facts = {"summary", "facts"}
        /\ response.body.summary_and_facts.summary = llm_raw.fields["summary"].text
        /\ response.body.summary_and_facts.facts = llm_raw.fields["facts"].items

\* no credential and no microblog client, a payload with two facts, answered
C14_Witness ==
    /\ http_pc = "responded"
    /\ ~li_key /\ ~tw_client
    /\ ValidPayload
    /\ llm_raw.fields["facts"].items = <<"f1", "f2">>
    /\ response.status = 200
    /\ response.body.summary_and_facts.facts = <<"f1", "f2">>

(***************************************************************************)
(* C15                                                                     *)
(***************************************************************************)
\* the photo URL a cleaned record holds: the enrichment service names the
\* field photoUrl; null when the record has no such field
PhotoUrlOf(d) ==
    IF "photoUrl" \in DOMAIN d.entries THEN d.entries["photoUrl"]
    ELSE DictGet(d, "PhotoUrl")

\* C15: on success ice_break_with returns the photo URL of the cleaned record
\* when the record has a photo URL field and null otherwise, and the 200
\* response carries it as photoUrl, the empty string when it is null
C15_PhotoUrlCarried ==
    /\ pc = "returned" => photo = PhotoUrlOf(linkedin_data)
    /\ (http_pc = "responded" /\ response.status = 200) =>
          response.body.photoUrl =
             (IF PhotoUrlOf(linkedin_data) = JNull THEN JStr("")
              ELSE PhotoUrlOf(linkedin_data))

(***************************************************************************)
(* C19                                                                     *)
(***************************************************************************)
\* the response process() gives for a name field and the outcomes the
\* request itself received from its callees
OwnResponse(form, log) ==
    IF NameMissing(form)
    THEN [status |-> 400, body |-> [error |-> "Name parameter is required"]]
    ELSE LET last == log[Len(log)]
         IN  IF last.kind = "raise"
             THEN [status |-> 500,
                   body |-> [error |-> GenericMessage,
                             details |-> Details(last.exc)]]
             ELSE IF Parse(last.value).exc # "none"
             THEN [status |-> 500,
                   body |-> [error |-> GenericMessage,
                             details |-> Details(Parse(last.value).exc)]]
             ELSE [status |-> 200,
                   body |-> [summary_and_facts |->
                                 [summary |-> last.value.fields["summary"].text,
                                  facts |-> last.value.fields["facts"].items],
                             photoUrl |->
                                 OrEmpty(DictGet(log[2].value, "PhotoUrl"))]]

\* every response is the one its own name and its own outcomes determine
C19_OwnInputsOnly ==
    \A r \in Requests :
        rq[r].pc = "responded" => rq[r].response = OwnResponse(rq[r].form, rq[r].log)

\* a step of one request leaves the other requests' identifiers, profile,
\* posts and result as they are, and no step writes the process-wide state
C19_NoInterference ==
    /\ \A r \in Requests :
          rq'[r] # rq[r] => \A o \in Requests \ {r} : rq'[o] = rq[o]
    /\ UNCHANGED <<li_key, tw_client, app_debug>>

\* C19: for every interleaving of two requests, each response depends only
\* on the request's own name and on the outcomes it received itself; no step
\* of a request changes what another request holds, and the process-wide
\* state (credentials, microblog client, debug flag) is never written
C19_Independent ==
    /\ []C19_OwnInputsOnly
    /\ [][C19_NoInterference]_vars

\* two requests for different people, both answered, with different results
C19_Witness ==
    /\ rq[1].pc = "responded" /\ rq[2].pc = "responded"
    /\ rq[1].form # rq[2].form
    /\ rq[1].response.status = 200 /\ rq[2].response.status = 200
    /\ rq[1].response.body # rq[2].response.body
    /\ rq[1].locals.linkedin_data # rq[2].locals.linkedin_data

====
